---- MODULE Spec2Model ----
(***************************************************************************)
(* A model of pictogrid.py: the grid compositor pictogrid() and its two    *)
(* helpers make_offset() and open_and_size().                              *)
(*                                                                         *)
(* Sizes, offsets and boxes are tuples, as in the Python source.           *)
(* Python 2 integer "/" and "%" are floor division and the matching        *)
(* remainder (PyDiv, PyMod).  The float arithmetic of open_and_size        *)
(* (ratio = min(tw / float(w), th / float(h)); int(w * ratio)) is          *)
(* modelled with exact fractions <<num, den>>; for all dimensions up to 14 *)
(* the IEEE double computation gives the same integers, so every bound on  *)
(* a dimension below stays under that.                                     *)
(***************************************************************************)
EXTENDS Integers, Sequences, FiniteSets

VARIABLES
    n,            \* len(images)
    cols,         \* argument cols
    tile_width,   \* argument tile_width
    tile_height,  \* argument tile_height
    padding,      \* argument padding
    border,       \* argument border is set
    outpath,      \* argument outpath is set
    pc,           \* position in pictogrid / in the helper calls
    rows,         \* local rows
    canvas,       \* size given to Image.new, <<>> before that call
    i,            \* loop index of "for i, path in enumerate(images)"
    img,          \* local img: the result of open_and_size
    offset,       \* local offset: the result of make_offset
    cell,         \* <<col, row>> of the current iteration
    loaded,       \* indices whose image open_and_size obtained
    pasted,       \* log of result.paste calls
    borders,      \* log of draw.rectangle calls
    saved,        \* result.save(outpath) was carried out
    returned,     \* pictogrid returned result
    outcome,      \* "running", "ok" or the exception that left pictogrid
    failedAt      \* index of the image whose opening failed, -1 if none

vars == <<n, cols, tile_width, tile_height, padding, border, outpath, pc,
          rows, canvas, i, img, offset, cell, loaded, pasted, borders,
          saved, returned, outcome, failedAt>>

\* ---------------------------------------------------------------- bounds
MaxN == 4          \* images per call
MaxCols == 3       \* largest cols
MaxNegCols == 1    \* cols ranges down to -MaxNegCols
MaxTile == 3       \* largest tile dimension in a pictogrid call
MaxImg == 2        \* largest source image dimension in a pictogrid call
MaxPad == 1        \* largest padding
MaxDim == 6        \* largest dimension in the helper-level specification
MaxCell == 1       \* largest col / row in the helper-level specification

\* ------------------------------------------------------- Python arithmetic
\* Python 2 int / int: floor division, any non-zero divisor
PyDiv(a, b) == IF b > 0 THEN a \div b ELSE (0 - a) \div (0 - b)

\* Python %: the remainder that goes with floor division
PyMod(a, b) == a - b * PyDiv(a, b)

Min(a, b) == IF a <= b THEN a ELSE b

MaxFrac(p, q) == IF p[1] * q[2] >= q[1] * p[2] THEN p ELSE q

\* min() of two positive fractions <<num, den>>
MinFrac(p, q) == IF p[1] * q[2] <= q[1] * p[2] THEN p ELSE q

\* int(k * ratio) for k >= 0 and a positive fraction
IntTimes(k, ratio) == (k * ratio[1]) \div ratio[2]

\* ------------------------------------------------------------ pictogrid
RowsFloor(len, c) == PyDiv(len, c)

RowsPlusOne(len, c) == PyDiv(len, c) + 1

\* rows = (n / cols) + min(1, n % cols)
Rows(len, c) == PyDiv(len, c) + Min(1, PyMod(len, c))

\* (output_width, output_height)
CanvasSize(tw, th, pad, c, r) ==
    <<(tw + pad) * c + pad, (th + pad) * r + pad>>

\* col = i % cols, row = i / cols
GridCell(k, c) == <<PyMod(k, c), PyDiv(k, c)>>

\* ---------------------------------------------------------- make_offset
TileAnchorSameAxis(col, row, tw, th, pad) ==
    <<tw * col + pad * (col + 1), th * col + pad * (col + 1)>>

\* the offset of the grid panel: (x, y)
TileAnchor(col, row, tw, th, pad) ==
    <<tw * col + pad * (col + 1), th * row + pad * (row + 1)>>

make_offset_round(image, col, row, tw, th, pad) ==
    LET a  == TileAnchor(col, row, tw, th, pad)
        dx == PyDiv(tw - image.size[1] + 1, 2)
        dy == PyDiv(th - image.size[2] + 1, 2)
    IN  <<a[1] + dx, a[2] + dy>>

make_offset(image, col, row, tw, th, pad) ==
    LET a  == TileAnchor(col, row, tw, th, pad)
        dx == PyDiv(tw - image.size[1], 2)
        dy == PyDiv(th - image.size[2], 2)
    IN  <<a[1] + dx, a[2] + dy>>

\* -------------------------------------------------------- open_and_size
NoImage == [size |-> <<>>, resized |-> FALSE, src |-> <<>>]

FitRatioMax(w, h, tw, th) == MaxFrac(<<tw, w>>, <<th, h>>)

\* ratio = min(tw / float(w), th / float(h))
FitRatio(w, h, tw, th) == MinFrac(<<tw, w>>, <<th, h>>)

\* (nw, nh)
NewSize(w, h, tw, th) ==
    LET ratio == FitRatio(w, h, tw, th)
    IN  <<IntTimes(w, ratio), IntTimes(h, ratio)>>

open_and_size_always(size, tw, th) ==
    [size |-> NewSize(size[1], size[2], tw, th), resized |-> TRUE,
     src |-> size]

\* the part of open_and_size after the image object is obtained
open_and_size(size, tw, th) ==
    IF size = <<tw, th>>
    THEN [size |-> size, resized |-> FALSE, src |-> size]
    ELSE [size |-> NewSize(size[1], size[2], tw, th), resized |-> TRUE,
          src |-> size]

ZeroSized(image) == image.size[1] = 0 \/ image.size[2] = 0

\* ------------------------------------------------- a call of pictogrid
Init ==
    /\ n \in 0..MaxN
    /\ cols \in (0 - MaxNegCols)..MaxCols
    /\ tile_width \in 1..MaxTile
    /\ tile_height \in 1..MaxTile
    /\ padding \in 0..MaxPad
    /\ border \in BOOLEAN
    /\ outpath \in BOOLEAN
    /\ pc = "rows"
    /\ rows = 0
    /\ canvas = <<>>
    /\ i = 0
    /\ img = NoImage
    /\ offset = <<>>
    /\ cell = <<>>
    /\ loaded = <<>>
    /\ pasted = <<>>
    /\ borders = <<>>
    /\ saved = FALSE
    /\ returned = FALSE
    /\ outcome = "running"
    /\ failedAt = -1

Raise(e) ==
    /\ pc' = "raised"
    /\ outcome' = e

\* n = len(images); rows = ...  (n / 0 raises ZeroDivisionError)
ComputeRows ==
    /\ pc = "rows"
    /\ IF cols = 0
       THEN /\ Raise("ZeroDivisionError")
            /\ UNCHANGED rows
       ELSE /\ rows' = Rows(n, cols)
            /\ pc' = "new"
            /\ UNCHANGED outcome
    /\ UNCHANGED <<n, cols, tile_width, tile_height, padding, border,
                   outpath, canvas, i, img, offset, cell, loaded, pasted,
                   borders, saved, returned, failedAt>>

\* result = Image.new('RGB', (output_width, output_height), background)
NewCanvas ==
    /\ pc = "new"
    /\ canvas' = CanvasSize(tile_width, tile_height, padding, cols, rows)
    /\ pc' = "loop"
    /\ UNCHANGED <<n, cols, tile_width, tile_height, padding, border,
                   outpath, rows, i, img, offset, cell, loaded, pasted,
                   borders, saved, returned, outcome, failedAt>>

\* Image.new may reject a size with a negative component
NewCanvasFails ==
    /\ pc = "new"
    /\ LET s == CanvasSize(tile_width, tile_height, padding, cols, rows)
       IN  s[1] < 0 \/ s[2] < 0
    /\ Raise("ValueError")
    /\ UNCHANGED <<n, cols, tile_width, tile_height, padding, border,
                   outpath, rows, canvas, i, img, offset, cell, loaded,
                   pasted, borders, saved, returned, failedAt>>

\* the box given to draw.rectangle
BorderBox(off, tw, th) == <<off[1], off[2], off[1] + tw, off[2] + th>>

\* one pass of the loop body with images[i] an image of the given size
\* (already an Image, or a path that Image.open decodes)
Iterate ==
    /\ pc = "loop"
    /\ i < n
    /\ \E w \in 1..MaxImg, h \in 1..MaxImg :
        LET c   == GridCell(i, cols)
            im  == open_and_size(<<w, h>>, tile_width, tile_height)
            off == make_offset(im, c[1], c[2], tile_width, tile_height,
                               padding)
        IN  /\ cell' = c
            /\ img' = im
            /\ offset' = off
            /\ loaded' = Append(loaded, i)
            /\ pasted' = Append(pasted,
                   [i |-> i, col |-> c[1], row |-> c[2],
                    tile |-> TileAnchor(c[1], c[2], tile_width,
                                        tile_height, padding),
                    at |-> off, size |-> im.size])
            /\ borders' = IF border
                          THEN Append(borders,
                                   [i |-> i,
                                    box |-> BorderBox(off, tile_width,
                                                      tile_height)])
                          ELSE borders
    /\ i' = i + 1
    /\ UNCHANGED <<n, cols, tile_width, tile_height, padding, border,
                   outpath, pc, rows, canvas, saved, returned, outcome,
                   failedAt>>

OpenFailsSkip ==
    /\ pc = "loop"
    /\ i < n
    /\ failedAt' = i
    /\ i' = i + 1
    /\ UNCHANGED <<n, cols, tile_width, tile_height, padding, border,
                   outpath, pc, rows, canvas, img, offset, cell, loaded,
                   pasted, borders, saved, returned, outcome>>

\* images[i] is a path and Image.open(img_or_path) raises
OpenFails ==
    /\ pc = "loop"
    /\ i < n
    /\ failedAt' = i
    /\ Raise("IOError")
    /\ UNCHANGED <<n, cols, tile_width, tile_height, padding, border,
                   outpath, rows, canvas, i, img, offset, cell, loaded,
                   pasted, borders, saved, returned>>

\* img.resize((nw, nh), ...) may reject a size with a zero component
ResizeFails ==
    /\ pc = "loop"
    /\ i < n
    /\ \E w \in 1..MaxImg, h \in 1..MaxImg :
        LET im == open_and_size(<<w, h>>, tile_width, tile_height)
        IN  /\ im.resized
            /\ ZeroSized(im)
            /\ img' = im
    /\ loaded' = Append(loaded, i)
    /\ Raise("ValueError")
    /\ UNCHANGED <<n, cols, tile_width, tile_height, padding, border,
                   outpath, rows, canvas, i, offset, cell, pasted,
                   borders, saved, returned, failedAt>>

\* if outpath: result.save(outpath)
Save ==
    /\ pc = "loop"
    /\ i >= n
    /\ saved' = outpath
    /\ pc' = "return"
    /\ UNCHANGED <<n, cols, tile_width, tile_height, padding, border,
                   outpath, rows, canvas, i, img, offset, cell, loaded,
                   pasted, borders, returned, outcome, failedAt>>

\* result.save(outpath) raises
SaveFails ==
    /\ pc = "loop"
    /\ i >= n
    /\ outpath
    /\ Raise("IOError")
    /\ UNCHANGED <<n, cols, tile_width, tile_height, padding, border,
                   outpath, rows, canvas, i, img, offset, cell, loaded,
                   pasted, borders, saved, returned, failedAt>>

\* return result
Return ==
    /\ pc = "return"
    /\ returned' = TRUE
    /\ outcome' = "ok"
    /\ pc' = "done"
    /\ UNCHANGED <<n, cols, tile_width, tile_height, padding, border,
                   outpath, rows, canvas, i, img, offset, cell, loaded,
                   pasted, borders, saved, failedAt>>

Next ==
    \/ ComputeRows
    \/ NewCanvas
    \/ NewCanvasFails
    \/ Iterate
    \/ OpenFails
    \/ ResizeFails
    \/ Save
    \/ SaveFails
    \/ Return

Spec == Init /\ [][Next]_vars

\* ------------------------------ the helpers on their own, larger sizes
InitResize ==
    /\ n = 1
    /\ cols = 1
    /\ tile_width \in 1..MaxDim
    /\ tile_height \in 1..MaxDim
    /\ padding \in 0..MaxPad
    /\ border = FALSE
    /\ outpath = FALSE
    /\ pc = "open"
    /\ rows = 0
    /\ canvas = <<>>
    /\ i = 0
    /\ img = NoImage
    /\ offset = <<>>
    /\ cell = <<>>
    /\ loaded = <<>>
    /\ pasted = <<>>
    /\ borders = <<>>
    /\ saved = FALSE
    /\ returned = FALSE
    /\ outcome = "running"
    /\ failedAt = -1

\* img = open_and_size(image, tw, th) for an Image of any size
CallOpenAndSize ==
    /\ pc = "open"
    /\ \E w \in 1..MaxDim, h \in 1..MaxDim :
        img' = open_and_size(<<w, h>>, tile_width, tile_height)
    /\ pc' = "offset"
    /\ UNCHANGED <<n, cols, tile_width, tile_height, padding, border,
                   outpath, rows, canvas, i, offset, cell, loaded, pasted,
                   borders, saved, returned, outcome, failedAt>>

\* offset = make_offset(img, col, row, tw, th, padding)
CallMakeOffset ==
    /\ pc = "offset"
    /\ \E col \in 0..MaxCell, row \in 0..MaxCell :
        /\ cell' = <<col, row>>
        /\ offset' = make_offset(img, col, row, tile_width, tile_height,
                                 padding)
    /\ pc' = "fin"
    /\ UNCHANGED <<n, cols, tile_width, tile_height, padding, border,
                   outpath, rows, canvas, i, img, loaded, pasted, borders,
                   saved, returned, outcome, failedAt>>

NextResize ==
    \/ CallOpenAndSize
    \/ CallMakeOffset

SpecResize == InitResize /\ [][NextResize]_vars

\* ================================================================ claims
\* ceil(a / b) for a >= 0, b >= 1: the least r with r * b >= a
CeilDiv(a, b) == CHOOSE r \in 0..a : r * b >= a /\ (r - 1) * b < a

\* C1: for n >= 1 images and cols >= 1 the canvas is created with width
\* (tile_width + padding) * cols + padding and height
\* (tile_height + padding) * rows + padding, where rows = ceil(n / cols).
C1_CanvasSize ==
    (n >= 1 /\ cols >= 1 /\ canvas # <<>>) =>
        /\ rows = CeilDiv(n, cols)
        /\ canvas = <<(tile_width + padding) * cols + padding,
                      (tile_height + padding) * CeilDiv(n, cols) + padding>>

C1_Witness ==
    /\ n = 3
    /\ cols = 2
    /\ padding = 1
    /\ canvas # <<>>
    /\ rows = 2

BoxesDisjoint(a, b) ==
    \/ a[1] + tile_width <= b[1]
    \/ b[1] + tile_width <= a[1]
    \/ a[2] + tile_height <= b[2]
    \/ b[2] + tile_height <= a[2]

BoxInCanvas(a) ==
    /\ 0 <= a[1]
    /\ a[1] + tile_width <= canvas[1]
    /\ 0 <= a[2]
    /\ a[2] + tile_height <= canvas[2]

\* C2: images are laid out row-major in input order (index i at
\* col = i mod cols, row = i div cols, anchor x = tile_width*col +
\* padding*(col+1), y = tile_height*row + padding*(row+1)); the tile boxes
\* of two distinct indices are disjoint and every tile box lies inside the
\* canvas.
C2_RowMajorDisjoint ==
    cols >= 1 =>
        \A k \in 1..Len(pasted) :
            LET p == pasted[k]
            IN  /\ p.i = k - 1
                /\ p.col = p.i % cols
                /\ p.row = p.i \div cols
                /\ p.tile = <<tile_width * p.col + padding * (p.col + 1),
                              tile_height * p.row + padding * (p.row + 1)>>
                /\ BoxInCanvas(p.tile)
                /\ \A j \in 1..Len(pasted) :
                       j # k => BoxesDisjoint(p.tile, pasted[j].tile)

C2_Witness ==
    /\ cols = 2
    /\ Len(pasted) = 3
    /\ pasted[3].row = 1
    /\ pc = "done"

\* C3: when border is set, the rectangle of every image index is drawn at
\* the full tile bounds (x, y, x + tile_width, y + tile_height) with (x, y)
\* the tile anchor before centering, whatever the size of the pasted image.
C3_BorderAtTileBounds ==
    cols >= 1 =>
        \A k \in 1..Len(borders) :
            LET b == borders[k]
                p == pasted[b.i + 1]
            IN  (p.size[1] >= 1 /\ p.size[2] >= 1) =>
                    b.box = <<p.tile[1], p.tile[2],
                              p.tile[1] + tile_width,
                              p.tile[2] + tile_height>>

\* C4: a call with cols <= 0 ends in ConfigError, raised before any image
\* is loaded, resized or pasted and before any canvas is created.
C4_ColsRejected ==
    cols <= 0 =>
        /\ canvas = <<>>
        /\ loaded = <<>>
        /\ pasted = <<>>
        /\ pc # "done"
        /\ pc = "raised" => outcome = "ConfigError"

\* C5 as stated: the image open_and_size returns is never larger than the
\* source image, in width or in height.
C5_NeverScalesUp ==
    img.size # <<>> =>
        /\ img.size[1] <= img.src[1]
        /\ img.size[2] <= img.src[2]

\* C5 amended: when the source is at least as wide as the tile or at least
\* as high as the tile, the image open_and_size returns is no larger than
\* the source in either dimension.
C5_NoScaleUpUnlessSmaller ==
    (img.size # <<>> /\ (img.src[1] >= tile_width
                         \/ img.src[2] >= tile_height)) =>
        /\ img.size[1] <= img.src[1]
        /\ img.size[2] <= img.src[2]

C5_Witness ==
    /\ img.resized
    /\ img.src[1] > tile_width
    /\ img.src[2] < tile_height
    /\ img.size[1] < img.src[1]
    /\ img.size[2] >= 1

\* C6: the resized size is (floor(w*ratio), floor(h*ratio)) with
\* ratio = min(tile_width/w, tile_height/h); it is at most the tile in both
\* dimensions, so the centering offsets dx = floor((tile_width - w')/2) and
\* dy = floor((tile_height - h')/2) are non-negative, and the paste
\* position is (x + dx, y + dy).
C6_FitsAndCentered ==
    img.size # <<>> =>
        LET w  == img.src[1]
            h  == img.src[2]
            x  == tile_width * cell[1] + padding * (cell[1] + 1)
            y  == tile_height * cell[2] + padding * (cell[2] + 1)
            dx == offset[1] - x
            dy == offset[2] - y
        IN  /\ img.size[1] = Min(tile_width, (w * tile_height) \div h)
            /\ img.size[2] = Min((h * tile_width) \div w, tile_height)
            /\ img.size[1] <= tile_width
            /\ img.size[2] <= tile_height
            /\ offset # <<>> =>
                   /\ dx >= 0
                   /\ dy >= 0
                   /\ 2 * dx <= tile_width - img.size[1]
                   /\ tile_width - img.size[1] <= 2 * dx + 1
                   /\ 2 * dy <= tile_height - img.size[2]
                   /\ tile_height - img.size[2] <= 2 * dy + 1

C6_Witness ==
    /\ offset # <<>>
    /\ img.resized
    /\ img.size[1] >= 1
    /\ tile_width - img.size[1] = 3
    /\ offset[1] = tile_width * cell[1] + padding * (cell[1] + 1) + 1
    /\ cell = <<1, 1>>

\* C7: if loading the image at index k fails, no image with a larger index
\* is loaded or pasted, no canvas is returned and nothing is saved; the
\* save step is reached only after every image was loaded and pasted.
C7_FailFast ==
    /\ failedAt # -1 =>
           /\ pc = "raised"
           /\ outcome = "IOError"
           /\ ~returned
           /\ ~saved
           /\ \A k \in 1..Len(loaded) : loaded[k] < failedAt
           /\ \A k \in 1..Len(pasted) : pasted[k].i < failedAt
    /\ (saved \/ pc \in {"return", "done"}) =>
           /\ Len(loaded) = n
           /\ Len(pasted) = n

C7_Witness ==
    /\ failedAt = 1
    /\ n = 3
    /\ outpath
    /\ Len(pasted) = 1
    /\ pc = "raised"

\* C8: an image whose size equals (tile_width, tile_height) goes through
\* open_and_size without a resize, unchanged, and is pasted at the tile
\* anchor (centering offset (0, 0)).
C8_ExactSizePassThrough ==
    img.src = <<tile_width, tile_height>> =>
        /\ ~img.resized
        /\ img.size = img.src
        /\ offset # <<>> =>
               offset = <<tile_width * cell[1] + padding * (cell[1] + 1),
                          tile_height * cell[2] + padding * (cell[2] + 1)>>

C8_Witness ==
    /\ img.src = <<tile_width, tile_height>>
    /\ tile_width # tile_height
    /\ pc = "fin"
    /\ cell = <<1, 0>>
    /\ padding = 1

\* C9 as stated: with an empty image list and cols >= 1 the call raises
\* ConfigError or makes a canvas of size (padding, padding) with no tiles.
C9_EmptyListPaddingCanvas ==
    (n = 0 /\ cols >= 1) =>
        \/ outcome = "ConfigError"
        \/ /\ pasted = <<>>
           /\ canvas # <<>> => canvas = <<padding, padding>>

\* C9 amended: with an empty image list and cols >= 1 the call raises no
\* ConfigError; it computes rows = 0 and makes a canvas of size
\* ((tile_width + padding) * cols + padding, padding) with no tiles.
C9_EmptyListCanvas ==
    (n = 0 /\ cols >= 1) =>
        /\ outcome # "ConfigError"
        /\ pasted = <<>>
        /\ borders = <<>>
        /\ pc # "rows" => rows = 0
        /\ canvas # <<>> =>
               canvas = <<(tile_width + padding) * cols + padding, padding>>

C9_Witness ==
    /\ n = 0
    /\ cols = 2
    /\ padding = 1
    /\ canvas # <<>>
    /\ returned

\* C10: for a source of at least 1 x 1 and a tile of at least 1 x 1 the
\* size open_and_size passes to resize is at least 1 in both dimensions.
C10_ResizeNeverEmpty ==
    img.resized => (img.size[1] >= 1 /\ img.size[2] >= 1)

====
